---- MODULE Spec2Model ----
(***************************************************************************)
(* Voting payload records of boa-sdk-ts: VoterCard and BallotData.         *)
(* Wire codec (serialize / deserialize), hash input (computeHash) and      *)
(* signature check (verify), with the object references the constructors   *)
(* store.                                                                  *)
(*                                                                         *)
(* Representation                                                          *)
(*   byte buffer   sequence of 0..255                                      *)
(*   string        sequence of UTF-16 code units 0..65535 (a JS string)    *)
(*   JSBI, number  four 16-bit limbs, least significant first, so that     *)
(*                 values up to 2^64-1 keep their width                    *)
(***************************************************************************)
EXTENDS Integers, Sequences, FiniteSets, TLC

(***************************************************************************)
(* Widths                                                                  *)
(***************************************************************************)
\* Utils.SIZE_OF_PUBLIC_KEY
SIZE_OF_PUBLIC_KEY == 32

\* Signature.Width
SignatureWidth == 64

\* BallotData.WIDTH (documentary; nothing reads it)
WIDTH == 266

\* BallotData.HEADER = "BALLOT  " as code units
HEADER == <<66, 65, 76, 76, 79, 84, 32, 32>>

(***************************************************************************)
(* Bytes and integers                                                      *)
(***************************************************************************)
Zeros(n) == [i \in 1..n |-> 0]

\* Buffer.alloc(Signature.Width): the default signature of both constructors
ZeroSignature == Zeros(SignatureWidth)

LE16(w) == <<w % 256, w \div 256>>

\* a small native number (a buffer length) as a number value
Num(n) == <<n % 65536, n \div 65536, 0, 0>>

\* Utils.writeJSBigIntLE into an 8-byte buffer: fixed 8 bytes, little endian
Utils_writeJSBigIntLE(v) == LE16(v[1]) \o LE16(v[2]) \o LE16(v[3]) \o LE16(v[4])

\* SmartBuffer.writeUInt32LE: Node's Buffer.writeUInt32LE rejects a value
\* above 0xFFFFFFFF with a RangeError instead of truncating it
writeUInt32LE(v) ==
    IF v[3] # 0 \/ v[4] # 0
    THEN [raised |-> TRUE, data |-> <<>>]
    ELSE [raised |-> FALSE, data |-> LE16(v[1]) \o LE16(v[2])]

(***************************************************************************)
(* VarInt: one byte up to 0xFC, else a tag 0xFD / 0xFE / 0xFF followed by  *)
(* the value in 2 / 4 / 8 little-endian bytes                              *)
(***************************************************************************)
VarIntEncode(v) ==
    IF v[2] = 0 /\ v[3] = 0 /\ v[4] = 0 /\ v[1] <= 252 THEN <<v[1]>>
    ELSE IF v[2] = 0 /\ v[3] = 0 /\ v[4] = 0 THEN <<253>> \o LE16(v[1])
    ELSE IF v[3] = 0 /\ v[4] = 0 THEN <<254>> \o LE16(v[1]) \o LE16(v[2])
    ELSE <<255>> \o Utils_writeJSBigIntLE(v)

VarInt_fromNumber(v) == VarIntEncode(v)

VarInt_fromJSBI(v) == VarIntEncode(v)

\* a failed read: the error kind and the read offset when it was thrown
ReadFail(kind, pos) == [err |-> kind, val |-> <<>>, pos |-> pos]

ReadOk(val, pos) == [err |-> "", val |-> val, pos |-> pos]

Word(buf, at) == buf[at] + 256 * buf[at + 1]

VarIntDecode(buf, pos) ==
    LET remaining == Len(buf) - pos IN
    IF remaining < 1 THEN ReadFail("underrun", pos)
    ELSE LET tag == buf[pos + 1] IN
         IF tag <= 252 THEN ReadOk(<<tag, 0, 0, 0>>, pos + 1)
         ELSE IF tag = 253 THEN
              IF remaining - 1 < 2 THEN ReadFail("underrun", pos + 1)
              ELSE ReadOk(<<Word(buf, pos + 2), 0, 0, 0>>, pos + 3)
         ELSE IF tag = 254 THEN
              IF remaining - 1 < 4 THEN ReadFail("underrun", pos + 1)
              ELSE ReadOk(<<Word(buf, pos + 2), Word(buf, pos + 4), 0, 0>>, pos + 5)
         ELSE IF remaining - 1 < 8 THEN ReadFail("underrun", pos + 1)
              ELSE ReadOk(<<Word(buf, pos + 2), Word(buf, pos + 4),
                            Word(buf, pos + 6), Word(buf, pos + 8)>>, pos + 9)

VarInt_toNumber(buf, pos) == VarIntDecode(buf, pos)

VarInt_toJSBI(buf, pos) == VarIntDecode(buf, pos)

\* Utils.readBuffer(buffer, length): exactly length bytes, or an error when
\* fewer remain
Utils_readBuffer(buf, pos, length) ==
    LET remaining == Len(buf) - pos IN
    IF length[2] # 0 \/ length[3] # 0 \/ length[4] # 0 \/ remaining < length[1]
    THEN ReadFail("underrun", pos)
    ELSE ReadOk(SubSeq(buf, pos + 1, pos + length[1]), pos + length[1])

(***************************************************************************)
(* UTF-8: Buffer.from(string) and Buffer.toString()                        *)
(***************************************************************************)
IsHighSurrogate(u) == u >= 55296 /\ u <= 56319

IsLowSurrogate(u) == u >= 56320 /\ u <= 57343

Utf8OfCodePoint(cp) ==
    IF cp < 128 THEN <<cp>>
    ELSE IF cp < 2048 THEN <<192 + (cp \div 64), 128 + (cp % 64)>>
    ELSE IF cp < 65536 THEN
        <<224 + (cp \div 4096), 128 + ((cp \div 64) % 64), 128 + (cp % 64)>>
    ELSE <<240 + (cp \div 262144), 128 + ((cp \div 4096) % 64),
           128 + ((cp \div 64) % 64), 128 + (cp % 64)>>

RECURSIVE Utf8EncodeFrom(_, _)
Utf8EncodeFrom(s, i) ==
    IF i > Len(s) THEN <<>>
    ELSE LET u == s[i] IN
         IF IsHighSurrogate(u) /\ i < Len(s) /\ IsLowSurrogate(s[i + 1])
         THEN Utf8OfCodePoint(65536 + (u - 55296) * 1024 + (s[i + 1] - 56320))
              \o Utf8EncodeFrom(s, i + 2)
         ELSE IF IsHighSurrogate(u) \/ IsLowSurrogate(u)
         THEN <<239, 191, 189>> \o Utf8EncodeFrom(s, i + 1)
         ELSE Utf8OfCodePoint(u) \o Utf8EncodeFrom(s, i + 1)

\* Buffer.from(str): UTF-8, an unpaired surrogate becomes U+FFFD
Buffer_from(s) == Utf8EncodeFrom(s, 1)

IsCont(b, i, lo, hi) == i <= Len(b) /\ b[i] >= lo /\ b[i] <= hi

CodeUnitsOf(cp) ==
    IF cp < 65536 THEN <<cp>>
    ELSE <<55296 + ((cp - 65536) \div 1024), 56320 + ((cp - 65536) % 1024)>>

RECURSIVE Utf8DecodeFrom(_, _)
Utf8DecodeFrom(b, i) ==
    IF i > Len(b) THEN <<>>
    ELSE LET c == b[i] IN
      IF c < 128 THEN <<c>> \o Utf8DecodeFrom(b, i + 1)
      ELSE IF c >= 194 /\ c <= 223 THEN
        IF IsCont(b, i + 1, 128, 191)
        THEN <<(c - 192) * 64 + (b[i + 1] - 128)>> \o Utf8DecodeFrom(b, i + 2)
        ELSE <<65533>> \o Utf8DecodeFrom(b, i + 1)
      ELSE IF c >= 224 /\ c <= 239 THEN
        LET lo == IF c = 224 THEN 160 ELSE 128
            hi == IF c = 237 THEN 159 ELSE 191 IN
        IF ~IsCont(b, i + 1, lo, hi) THEN <<65533>> \o Utf8DecodeFrom(b, i + 1)
        ELSE IF ~IsCont(b, i + 2, 128, 191) THEN <<65533>> \o Utf8DecodeFrom(b, i + 2)
        ELSE <<(c - 224) * 4096 + (b[i + 1] - 128) * 64 + (b[i + 2] - 128)>>
             \o Utf8DecodeFrom(b, i + 3)
      ELSE IF c >= 240 /\ c <= 244 THEN
        LET lo == IF c = 240 THEN 144 ELSE 128
            hi == IF c = 244 THEN 143 ELSE 191 IN
        IF ~IsCont(b, i + 1, lo, hi) THEN <<65533>> \o Utf8DecodeFrom(b, i + 1)
        ELSE IF ~IsCont(b, i + 2, 128, 191) THEN <<65533>> \o Utf8DecodeFrom(b, i + 2)
        ELSE IF ~IsCont(b, i + 3, 128, 191) THEN <<65533>> \o Utf8DecodeFrom(b, i + 3)
        ELSE CodeUnitsOf((c - 240) * 262144 + (b[i + 1] - 128) * 4096
                         + (b[i + 2] - 128) * 64 + (b[i + 3] - 128))
             \o Utf8DecodeFrom(b, i + 4)
      ELSE <<65533>> \o Utf8DecodeFrom(b, i + 1)

\* buf.toString(): UTF-8, every ill-formed part becomes U+FFFD
Buffer_toString(b) == Utf8DecodeFrom(b, 1)

(***************************************************************************)
(* Hash and signature primitives.  The digest of a byte stream stands for  *)
(* the stream itself (no collisions).  A signature is valid for a key and  *)
(* a digest exactly when the holder of that key's private half issued it   *)
(* for that digest; `signed` lists what has been issued, and the 64 bytes  *)
(* of the i-th issued signature are i followed by zeros.                   *)
(***************************************************************************)
VARIABLES cards, ballots, signed, unsigned, buffer, result

vars == <<cards, ballots, signed, unsigned, buffer, result>>

\* hashFull(obj): the digest of the bytes obj.computeHash collected
hashFull(data) == [digest_of |-> data]

SignatureOf(i) == <<i>> \o Zeros(SignatureWidth - 1)

\* PublicKey.verify(signature, message)
PublicKey_verify(key, signature, message) ==
    \E i \in 1..Len(signed) :
        /\ signature = SignatureOf(i)
        /\ signed[i] = [key |-> key, message |-> message]

(***************************************************************************)
(* VoterCard                                                               *)
(***************************************************************************)
\* new VoterCard(validator_address, address, expires, signature?);
\* signature is <<>> for an omitted argument, else <<the signature>>
VoterCard_new(validator_address, address, expires, signature) ==
    [validator_address |-> validator_address,
     address |-> address,
     expires |-> expires,
     signature |-> IF signature # <<>> THEN signature[1] ELSE ZeroSignature]

\* variant: expires in its variable-length wire form
VoterCard_computeHash_wireExpires(card) ==
    card.validator_address \o card.address \o VarInt_fromJSBI(card.expires)

\* VoterCard.computeHash(buffer): what it appends
VoterCard_computeHash(card) ==
    card.validator_address \o card.address \o Utils_writeJSBigIntLE(card.expires)

VoterCard_verify(card) ==
    PublicKey_verify(card.validator_address, card.signature,
                     hashFull(VoterCard_computeHash(card)))

\* variant: expires written in the fixed 8-byte form of the hash input
VoterCard_serialize_fixedExpires(card) ==
    card.validator_address \o card.address
        \o Utils_writeJSBigIntLE(card.expires) \o card.signature

\* VoterCard.serialize(buffer): what it appends
VoterCard_serialize(card) ==
    card.validator_address \o card.address
        \o VarInt_fromJSBI(card.expires) \o card.signature

\* variant: SmartBuffer.readBuffer alone, which hands back the bytes that
\* remain when fewer than Signature.Width are left
ReadSignature_unchecked(buf, pos) ==
    LET end == IF pos + SignatureWidth <= Len(buf) THEN pos + SignatureWidth
               ELSE Len(buf) IN
    ReadOk(SubSeq(buf, pos + 1, end), end)

\* Utils.readBuffer(buffer, Signature.Width)
ReadSignature(buf, pos) == Utils_readBuffer(buf, pos, Num(SignatureWidth))

\* VoterCard.deserialize(buffer) from read offset pos
VoterCard_deserialize(buf, pos) ==
    LET validator_address == Utils_readBuffer(buf, pos, Num(SIZE_OF_PUBLIC_KEY)) IN
    IF validator_address.err # "" THEN validator_address ELSE
    LET address == Utils_readBuffer(buf, validator_address.pos, Num(SIZE_OF_PUBLIC_KEY)) IN
    IF address.err # "" THEN address ELSE
    LET expires == VarInt_toJSBI(buf, address.pos) IN
    IF expires.err # "" THEN expires ELSE
    LET signature == ReadSignature(buf, expires.pos) IN
    IF signature.err # "" THEN signature ELSE
    ReadOk(VoterCard_new(validator_address.val, address.val, expires.val,
                         <<signature.val>>),
           signature.pos)

(***************************************************************************)
(* BallotData (as a value: its card field holds the card's fields)         *)
(***************************************************************************)
\* variant: the default signature buffer is not cleared (Buffer.allocUnsafe)
\* and holds the bytes of an earlier signature
BallotData_new_unsafeDefault(proposal_id, ballot, card, sequence, signature) ==
    [proposal_id |-> proposal_id,
     ballot |-> ballot,
     card |-> card,
     sequence |-> sequence,
     signature |-> IF signature # <<>> THEN signature[1] ELSE SignatureOf(1)]

\* new BallotData(proposal_id, ballot, card, sequence, signature?)
BallotData_new(proposal_id, ballot, card, sequence, signature) ==
    [proposal_id |-> proposal_id,
     ballot |-> ballot,
     card |-> card,
     sequence |-> sequence,
     signature |-> IF signature # <<>> THEN signature[1] ELSE ZeroSignature]

\* variant: the sequence number is left out of the hash input
BallotData_computeHash_noSequence(b) ==
    [raised |-> FALSE,
     data |-> Buffer_from(b.proposal_id) \o b.ballot \o VoterCard_computeHash(b.card)]

\* variant: proposal_id and ballot are length-prefixed as on the wire
BallotData_computeHash_prefixed(b) ==
    LET sequence == writeUInt32LE(b.sequence)
        proposal_id == Buffer_from(b.proposal_id) IN
    IF sequence.raised THEN [raised |-> TRUE, data |-> <<>>]
    ELSE [raised |-> FALSE,
          data |-> VarInt_fromNumber(Num(Len(proposal_id))) \o proposal_id
                       \o VarInt_fromNumber(Num(Len(b.ballot))) \o b.ballot
                       \o VoterCard_computeHash(b.card) \o sequence.data]

\* BallotData.computeHash(buffer): what it appends, or the RangeError of
\* writeUInt32LE
BallotData_computeHash(b) ==
    LET sequence == writeUInt32LE(b.sequence) IN
    IF sequence.raised THEN [raised |-> TRUE, data |-> <<>>]
    ELSE [raised |-> FALSE,
          data |-> Buffer_from(b.proposal_id) \o b.ballot
                       \o VoterCard_computeHash(b.card) \o sequence.data]

\* variant: the signature is checked against the validator's key
BallotData_verify_validatorKey(b) ==
    LET collected == BallotData_computeHash(b) IN
    IF collected.raised THEN "raise"
    ELSE IF PublicKey_verify(b.card.validator_address, b.signature,
                             hashFull(collected.data))
         THEN "true" ELSE "false"

\* BallotData.verify(): "true", "false", or "raise" when computeHash throws
BallotData_verify(b) ==
    LET collected == BallotData_computeHash(b) IN
    IF collected.raised THEN "raise"
    ELSE IF PublicKey_verify(b.card.address, b.signature, hashFull(collected.data))
         THEN "true" ELSE "false"

\* BallotData.serialize(buffer): what it appends
BallotData_serialize(b) ==
    LET header == Buffer_from(HEADER)
        proposal_id == Buffer_from(b.proposal_id) IN
    VarInt_fromNumber(Num(Len(header))) \o header
        \o VarInt_fromNumber(Num(Len(proposal_id))) \o proposal_id
        \o VarInt_fromNumber(Num(Len(b.ballot))) \o b.ballot
        \o VoterCard_serialize(b.card)
        \o VarInt_fromNumber(b.sequence)
        \o b.signature

\* the outcome of a deserialize call: status "ok" with the record, or the
\* error kind with the read offset at the throw
Thrown(kind, pos) == [status |-> kind, pos |-> pos, value |-> <<>>]

\* variant: only the leading "BALLOT" is compared
HeaderMatches_prefix(header) ==
    LET text == Buffer_toString(header) IN
    Len(text) >= 6 /\ SubSeq(text, 1, 6) = SubSeq(HEADER, 1, 6)

\* header.toString() !== BallotData.HEADER, negated
HeaderMatches(header) == Buffer_toString(header) = HEADER

\* BallotData.deserialize(buffer)
BallotData_deserialize(buf) ==
    LET length1 == VarInt_toNumber(buf, 0) IN
    IF length1.err # "" THEN Thrown(length1.err, length1.pos) ELSE
    LET header == Utils_readBuffer(buf, length1.pos, length1.val) IN
    IF header.err # "" THEN Thrown(header.err, header.pos) ELSE
    IF ~HeaderMatches(header.val) THEN Thrown("format", header.pos) ELSE
    LET length2 == VarInt_toNumber(buf, header.pos) IN
    IF length2.err # "" THEN Thrown(length2.err, length2.pos) ELSE
    LET temp == Utils_readBuffer(buf, length2.pos, length2.val) IN
    IF temp.err # "" THEN Thrown(temp.err, temp.pos) ELSE
    LET length3 == VarInt_toNumber(buf, temp.pos) IN
    IF length3.err # "" THEN Thrown(length3.err, length3.pos) ELSE
    LET ballot == Utils_readBuffer(buf, length3.pos, length3.val) IN
    IF ballot.err # "" THEN Thrown(ballot.err, ballot.pos) ELSE
    LET card == VoterCard_deserialize(buf, ballot.pos) IN
    IF card.err # "" THEN Thrown(card.err, card.pos) ELSE
    LET sequence == VarInt_toNumber(buf, card.pos) IN
    IF sequence.err # "" THEN Thrown(sequence.err, sequence.pos) ELSE
    LET signature == ReadSignature(buf, sequence.pos) IN
    IF signature.err # "" THEN Thrown(signature.err, signature.pos) ELSE
    [status |-> "ok",
     pos |-> signature.pos,
     value |-> <<BallotData_new(Buffer_toString(temp.val), ballot.val, card.val,
                                sequence.val, <<signature.val>>)>>]

(***************************************************************************)
(* Bounds and input samples                                                *)
(***************************************************************************)
MaxPidLen == 2

MaxBallotLen == 1

MaxCards == 1

MaxBallots == 2

MaxSigned == 3

\* code units: 'A', e-acute (2 bytes), euro sign (3 bytes), a high and a low
\* surrogate (4 bytes as a pair, unpaired otherwise)
Alphabet == {65, 233, 8364, 55296, 56320}

Strings(n) == UNION {[1..k -> Alphabet] : k \in 0..n}

ByteStrings(n) == UNION {[1..k -> {0, 255}] : k \in 0..n}

KeyZero == Zeros(SIZE_OF_PUBLIC_KEY)

KeyV == [i \in 1..SIZE_OF_PUBLIC_KEY |-> i]

KeyA == [i \in 1..SIZE_OF_PUBLIC_KEY |-> 255 - i]

\* 0, 0xFC, 0xFD, 0xFFFF, 0x10000, 2^32-1: each VarInt width of a uint32
UInt32Samples ==
    {<<0, 0, 0, 0>>, <<252, 0, 0, 0>>, <<253, 0, 0, 0>>,
     <<65535, 0, 0, 0>>, <<0, 1, 0, 0>>, <<65535, 65535, 0, 0>>}

\* and 2^32, 2^64-1
UInt64Samples == UInt32Samples \cup {<<0, 0, 1, 0>>, <<65535, 65535, 65535, 65535>>}

OnesSignature == [i \in 1..SignatureWidth |-> 255]

\* a constructor's signature argument: omitted, or given
SignatureArgs == {<<>>, <<SignatureOf(1)>>, <<OnesSignature>>}

KeyPairs == {<<KeyV, KeyA>>, <<KeyZero, KeyZero>>}

\* the constructor arguments a single-record specification starts from:
\* every proposal_id and ballot with the other arguments fixed and the
\* signatures omitted, and every sampled expires, sequence, key pair and
\* signature argument with those two fixed
RecordArgs ==
    {[proposal_id |-> p, ballot |-> b, validator_address |-> KeyV, address |-> KeyA,
      expires |-> <<0, 0, 0, 0>>, sequence |-> <<0, 0, 0, 0>>, signature |-> <<>>] :
        p \in Strings(MaxPidLen), b \in ByteStrings(MaxBallotLen)}
    \cup
    {[proposal_id |-> <<65, 8364>>, ballot |-> <<0>>, validator_address |-> k[1],
      address |-> k[2], expires |-> e, sequence |-> q, signature |-> s] :
        k \in KeyPairs, e \in UInt64Samples, q \in UInt32Samples, s \in SignatureArgs}

(***************************************************************************)
(* State: the VoterCard and BallotData objects that exist (a BallotData    *)
(* holds the index of the VoterCard object its constructor was given), the *)
(* signatures issued so far, the objects that were constructed without a  *)
(* signature argument and have had none assigned since, the SmartBuffer    *)
(* handed to deserialize and the outcome of the last deserialize call.     *)
(***************************************************************************)
NoResult == [status |-> "none", pos |-> 0, value |-> <<>>]

\* the record an object's methods see: this.card followed to the object
Deref(b) == [b EXCEPT !.card = cards[b.card]]

TypeOK ==
    /\ Len(cards) <= MaxCards
    /\ Len(ballots) <= MaxBallots
    /\ \A i \in 1..Len(ballots) : ballots[i].card \in 1..Len(cards)
    /\ Len(signed) <= MaxSigned
    /\ result.status \in {"none", "ok", "underrun", "format"}

Init ==
    /\ cards = <<>>
    /\ ballots = <<>>
    /\ signed = <<>>
    /\ unsigned = {}
    /\ buffer = <<>>
    /\ result = NoResult

\* one VoterCard and one BallotData holding it have been constructed
InitRecord ==
    /\ \E a \in RecordArgs :
        /\ cards = <<VoterCard_new(a.validator_address, a.address, a.expires,
                                   a.signature)>>
        /\ ballots = <<BallotData_new(a.proposal_id, a.ballot, 1, a.sequence,
                                      a.signature)>>
        /\ unsigned = IF a.signature = <<>> THEN {<<"card", 1>>, <<"ballot", 1>>}
                      ELSE {}
    /\ signed = <<>>
    /\ buffer = <<>>
    /\ result = NoResult

(***************************************************************************)
(* Constructors and the assignments to the public signature fields         *)
(***************************************************************************)
NewVoterCard(validator_address, address, expires, signature) ==
    /\ Len(cards) < MaxCards
    /\ cards' = Append(cards, VoterCard_new(validator_address, address, expires,
                                            signature))
    /\ unsigned' = IF signature = <<>> THEN unsigned \cup {<<"card", Len(cards) + 1>>}
                   ELSE unsigned
    /\ UNCHANGED <<ballots, signed, buffer, result>>

\* card is a reference: the object is stored, not copied
NewBallotData(proposal_id, ballot, card, sequence, signature) ==
    /\ Len(ballots) < MaxBallots
    /\ card \in 1..Len(cards)
    /\ ballots' = Append(ballots, BallotData_new(proposal_id, ballot, card,
                                                 sequence, signature))
    /\ unsigned' = IF signature = <<>> THEN unsigned \cup {<<"ballot", Len(ballots) + 1>>}
                   ELSE unsigned
    /\ UNCHANGED <<cards, signed, buffer, result>>

\* the index of an issued signature, or the next index for a new one
IssuedIndex(entry) ==
    IF \E i \in 1..Len(signed) : signed[i] = entry
    THEN CHOOSE i \in 1..Len(signed) : signed[i] = entry
    ELSE Len(signed) + 1

Issue(entry) ==
    /\ IssuedIndex(entry) <= MaxSigned
    /\ signed' = IF IssuedIndex(entry) > Len(signed) THEN Append(signed, entry)
                 ELSE signed

\* the validator signs the card's hash and attaches the signature
IssueCardSignature(c) ==
    LET entry == [key |-> cards[c].validator_address,
                  message |-> hashFull(VoterCard_computeHash(cards[c]))] IN
    /\ Issue(entry)
    /\ cards' = [cards EXCEPT ![c].signature = SignatureOf(IssuedIndex(entry))]
    /\ unsigned' = unsigned \ {<<"card", c>>}
    /\ UNCHANGED <<ballots, buffer, result>>

\* the holder of the private key of card[signer] signs the ballot's hash
IssueBallotSignature(b, signer) ==
    LET collected == BallotData_computeHash(Deref(ballots[b]))
        key == IF signer = "address" THEN cards[ballots[b].card].address
               ELSE cards[ballots[b].card].validator_address
        entry == [key |-> key, message |-> hashFull(collected.data)] IN
    /\ ~collected.raised
    /\ Issue(entry)
    /\ ballots' = [ballots EXCEPT ![b].signature = SignatureOf(IssuedIndex(entry))]
    /\ unsigned' = unsigned \ {<<"ballot", b>>}
    /\ UNCHANGED <<cards, buffer, result>>

(***************************************************************************)
(* The wire: serialize, what may reach deserialize, deserialize            *)
(***************************************************************************)
Wire(b) == BallotData_serialize(Deref(ballots[b]))

\* the buffer holds the whole serialized record, as serialize left it
Whole == buffer # <<>> /\ buffer = Wire(1)

Serialize(b) ==
    /\ buffer' = Wire(b)
    /\ result' = NoResult
    /\ UNCHANGED <<cards, ballots, signed, unsigned>>

\* the first n bytes of the serialized record arrive
Truncate(n) ==
    /\ n < Len(buffer)
    /\ buffer' = SubSeq(buffer, 1, n)
    /\ result' = NoResult
    /\ UNCHANGED <<cards, ballots, signed, unsigned>>

\* blocks offered in place of the header: the header bytes, a shorter and
\* a longer block, another case, the empty block, ill-formed UTF-8, a byte
\* order mark before the header
HeaderBlocks ==
    {Buffer_from(HEADER),
     SubSeq(Buffer_from(HEADER), 1, 7),
     Buffer_from(HEADER) \o <<32>>,
     Buffer_from(HEADER) \o <<0>>,
     <<98, 97, 108, 108, 111, 116, 32, 32>>,
     <<>>,
     <<66, 65, 76, 76, 79, 84, 32, 160>>,
     <<66, 65, 76, 76, 79, 84, 194, 32>>,
     <<239, 187, 191>> \o Buffer_from(HEADER)}

HeaderEnd == 1 + Len(Buffer_from(HEADER))

\* the record's bytes with another first block; what follows the block is
\* the rest of the record, nothing, or one stray byte
ReplaceHeader(block, follow) ==
    /\ buffer' = VarInt_fromNumber(Num(Len(block))) \o block
                   \o (CASE follow = "record" -> SubSeq(buffer, HeaderEnd + 1, Len(buffer))
                         [] follow = "nothing" -> <<>>
                         [] OTHER -> <<255>>)
    /\ result' = NoResult
    /\ UNCHANGED <<cards, ballots, signed, unsigned>>

\* the record's bytes with another sequence number on the wire
ReplaceSequence(v) ==
    LET old == VarInt_fromNumber(ballots[1].sequence)
        cut == Len(buffer) - SignatureWidth - Len(old) IN
    /\ buffer' = SubSeq(buffer, 1, cut) \o VarInt_fromNumber(v)
                   \o SubSeq(buffer, Len(buffer) - SignatureWidth + 1, Len(buffer))
    /\ result' = NoResult
    /\ UNCHANGED <<cards, ballots, signed, unsigned>>

Deserialize ==
    /\ result.status = "none"
    /\ result' = BallotData_deserialize(buffer)
    /\ UNCHANGED <<cards, ballots, signed, unsigned, buffer>>

(***************************************************************************)
(* Specifications                                                          *)
(***************************************************************************)
\* the objects: construction, shared references, signing
Next ==
    \/ \E k \in KeyPairs, s \in {<<>>, <<OnesSignature>>} :
          NewVoterCard(k[1], k[2], <<0, 0, 1, 0>>, s)
    \/ \E p \in {<<>>, <<65, 8364>>}, c \in 1..Len(cards),
          q \in {<<0, 0, 0, 0>>, <<65535, 65535, 0, 0>>},
          s \in {<<>>, <<OnesSignature>>} :
          NewBallotData(p, <<0>>, c, q, s)
    \/ \E c \in 1..Len(cards) : IssueCardSignature(c)
    \/ \E b \in 1..Len(ballots), signer \in {"address", "validator_address"} :
          IssueBallotSignature(b, signer)

Spec == Init /\ [][Next]_vars

\* one record on the wire
NextCodec ==
    \/ Serialize(1)
    \/ Whole /\ \E n \in 0..(Len(buffer) - 1) : Truncate(n)
    \/ Whole /\ \E block \in HeaderBlocks, follow \in {"record", "nothing", "stray"} :
          ReplaceHeader(block, follow)
    \/ Whole /\ \E v \in UInt64Samples : ReplaceSequence(v)
    \/ Deserialize

SpecCodec == InitRecord /\ [][NextCodec]_vars

\* one record being signed
NextSign ==
    \/ IssueCardSignature(1)
    \/ \E signer \in {"address", "validator_address"} : IssueBallotSignature(1, signer)

SpecSign == InitRecord /\ [][NextSign]_vars

(***************************************************************************)
(* Properties of the wire codec (SpecCodec)                                *)
(***************************************************************************)
\* the record under test, as its methods see it
X == Deref(ballots[1])

Deserialized == result.status # "none"

\* no surrogate code unit without its partner
RECURSIVE WellFormedFrom(_, _)
WellFormedFrom(s, i) ==
    IF i > Len(s) THEN TRUE
    ELSE IF IsHighSurrogate(s[i])
         THEN i < Len(s) /\ IsLowSurrogate(s[i + 1]) /\ WellFormedFrom(s, i + 2)
         ELSE ~IsLowSurrogate(s[i]) /\ WellFormedFrom(s, i + 1)

WellFormed(s) == WellFormedFrom(s, 1)

IsStrictPrefix(p, whole) == Len(p) < Len(whole) /\ p = SubSeq(whole, 1, Len(p))

\* C1 as claimed: deserialize of the bytes serialize wrote returns a record
\* equal to the serialized one in every field, for any proposal_id string
C1_RoundTripAnyString ==
    (Deserialized /\ Whole) => (result.status = "ok" /\ result.value = <<X>>)

\* C1 amended: deserialize of the bytes serialize wrote returns a record
\* equal to the serialized one in every field, when proposal_id has no
\* unpaired surrogate
C1_RoundTrip ==
    (Deserialized /\ Whole /\ WellFormed(X.proposal_id))
        => (result.status = "ok" /\ result.value = <<X>>)

\* a surrogate pair, a non-empty ballot, the widest expires and sequence
C1_Witness ==
    /\ Deserialized /\ Whole
    /\ result.value = <<X>>
    /\ \/ X.proposal_id = <<55296, 56320>>
       \/ /\ X.card.expires = <<65535, 65535, 65535, 65535>>
          /\ X.sequence = <<65535, 65535, 0, 0>>
          /\ X.signature = OnesSignature

\* C2: deserialize of any strict prefix of the serialized bytes, the empty
\* one included, fails with the underrun error and yields no record
C2_Underrun ==
    (Deserialized /\ IsStrictPrefix(buffer, Wire(1)))
        => (result.status = "underrun" /\ result.value = <<>>)

\* a prefix that ends inside the last field, the ballot's signature
C2_Witness ==
    /\ Deserialized
    /\ IsStrictPrefix(buffer, Wire(1))
    /\ Len(buffer) = Len(Wire(1)) - 1
    /\ result.status = "underrun"

\* C3: when the first length-prefixed block is whole and its bytes are not
\* the 8 header bytes, deserialize raises the format error with the read
\* offset at the end of that block, whatever follows it
C3_HeaderRejection ==
    Deserialized =>
        LET length == VarInt_toNumber(buffer, 0)
            block == Utils_readBuffer(buffer, length.pos, length.val) IN
        (length.err = "" /\ block.err = "" /\ block.val # Buffer_from(HEADER))
            => /\ result.status = "format"
               /\ result.pos = block.pos
               /\ result.value = <<>>

\* a wrong block of the header's length followed by the rest of a record
C3_Witness ==
    /\ result.status = "format"
    /\ result.pos = HeaderEnd
    /\ Len(buffer) > WIDTH - SignatureWidth
    /\ SubSeq(buffer, 2, 7) = SubSeq(Buffer_from(HEADER), 1, 6)

\* C7 as claimed: verify() of every record deserialize returns completes
\* with a boolean
C7_VerifyNeverRaises ==
    result.status = "ok" =>
        /\ BallotData_verify(result.value[1]) \in {"true", "false"}
        /\ VoterCard_verify(result.value[1].card) \in BOOLEAN

(***************************************************************************)
(* Properties of the hash input and of verify (SpecSign)                   *)
(***************************************************************************)
Pow2(k) == <<1, 2, 4, 8, 16, 32, 64, 128, 256, 512, 1024, 2048, 4096, 8192,
             16384, 32768>>[k + 1]

FlipBit(n, k) == IF (n \div Pow2(k)) % 2 = 1 THEN n - Pow2(k) ELSE n + Pow2(k)

\* s with bit k of its i-th element changed
Flip(s, i, k) == [s EXCEPT ![i] = FlipBit(s[i], k)]

\* the signature was issued by the holder of `key` for the digest of b's
\* hash input
IssuedFor(b, key) ==
    LET collected == BallotData_computeHash(b) IN
    /\ ~collected.raised
    /\ \E i \in 1..Len(signed) :
          /\ b.signature = SignatureOf(i)
          /\ signed[i] = [key |-> key, message |-> hashFull(collected.data)]

\* verify() is false with any one bit changed in ballot, sequence (32
\* bits), or a hashed field of the card: validator_address, address, expires
HashedFieldFlipsFail(b) ==
    /\ \A i \in 1..Len(b.ballot), k \in 0..7 :
          BallotData_verify([b EXCEPT !.ballot = Flip(b.ballot, i, k)]) = "false"
    /\ \A i \in 1..2, k \in 0..15 :
          BallotData_verify([b EXCEPT !.sequence = Flip(b.sequence, i, k)]) = "false"
    /\ \A i \in 1..SIZE_OF_PUBLIC_KEY, k \in 0..7 :
          BallotData_verify([b EXCEPT !.card.validator_address =
                                 Flip(b.card.validator_address, i, k)]) = "false"
    /\ \A i \in 1..SIZE_OF_PUBLIC_KEY, k \in 0..7 :
          BallotData_verify([b EXCEPT !.card.address =
                                 Flip(b.card.address, i, k)]) = "false"
    /\ \A i \in 1..4, k \in 0..15 :
          BallotData_verify([b EXCEPT !.card.expires =
                                 Flip(b.card.expires, i, k)]) = "false"

\* C4 as claimed: a ballot signed with the key of card.address verifies,
\* and with one bit changed in any field, proposal_id (a bit of a code
\* unit) and the card's signature included, it does not
C4_AnyBitFlipFails ==
    IssuedFor(X, X.card.address) =>
        /\ BallotData_verify(X) = "true"
        /\ HashedFieldFlipsFail(X)
        /\ \A i \in 1..Len(X.proposal_id), k \in 0..15 :
              BallotData_verify([X EXCEPT !.proposal_id =
                                     Flip(X.proposal_id, i, k)]) = "false"
        /\ \A i \in 1..SignatureWidth, k \in 0..7 :
              BallotData_verify([X EXCEPT !.card.signature =
                                     Flip(X.card.signature, i, k)]) = "false"

\* C4 amended: a ballot signed with the key of card.address verifies; with
\* one bit changed in ballot, sequence, card.validator_address, card.address
\* or card.expires, or in proposal_id so that its UTF-8 bytes change, it
\* does not
C4_HashedBitFlipFails ==
    IssuedFor(X, X.card.address) =>
        /\ BallotData_verify(X) = "true"
        /\ HashedFieldFlipsFail(X)
        /\ \A i \in 1..Len(X.proposal_id), k \in 0..15 :
              LET p == Flip(X.proposal_id, i, k) IN
              Buffer_from(p) # Buffer_from(X.proposal_id)
                  => BallotData_verify([X EXCEPT !.proposal_id = p]) = "false"

\* a signed ballot with something to flip in every field
C4_Witness ==
    /\ IssuedFor(X, X.card.address)
    /\ BallotData_verify(X) = "true"
    /\ X.proposal_id # <<>>
    /\ X.ballot # <<>>
    /\ BallotData_verify([X EXCEPT !.proposal_id = Flip(X.proposal_id, 1, 0)]) = "false"

SignatureSamples ==
    {ZeroSignature, OnesSignature} \cup {SignatureOf(i) : i \in 1..MaxSigned}

\* C6: verify() is true exactly when the signature is one issued under
\* card.address for the digest of the hash input; the card's own signature,
\* valid or not, does not change the result; a signature issued under a
\* validator key that differs from card.address does not verify
C6_KeyBinding ==
    /\ (BallotData_verify(X) = "true") <=> IssuedFor(X, X.card.address)
    /\ \A s \in SignatureSamples :
          BallotData_verify([X EXCEPT !.card.signature = s]) = BallotData_verify(X)
    /\ (IssuedFor(X, X.card.validator_address)
            /\ X.card.validator_address # X.card.address)
          => BallotData_verify(X) = "false"

\* the ballot carries the validator's signature over its digest and the
\* card's own signature is valid
C6_Witness ==
    /\ IssuedFor(X, X.card.validator_address)
    /\ X.card.validator_address # X.card.address
    /\ VoterCard_verify(X.card)
    /\ BallotData_verify(X) = "false"

\* byte k (0 = least significant) of a number value
ByteOf(v, k) == (v[(k \div 2) + 1] \div (IF k % 2 = 0 THEN 1 ELSE 256)) % 256

\* C9: the hash input is the UTF-8 bytes of proposal_id, the ballot bytes,
\* validator_address, address, expires in 8 little-endian bytes and sequence
\* in 4 little-endian bytes, nothing else: its length is
\* len(proposal_id bytes) + len(ballot) + 76, and it is not the wire form
C9_HashInputLayout ==
    LET collected == BallotData_computeHash(X)
        data == collected.data
        n == Len(Buffer_from(X.proposal_id))
        m == Len(X.ballot) IN
    /\ ~collected.raised
    /\ Len(data) = n + m + 76
    /\ SubSeq(data, 1, n) = Buffer_from(X.proposal_id)
    /\ SubSeq(data, n + 1, n + m) = X.ballot
    /\ SubSeq(data, n + m + 1, n + m + 32) = X.card.validator_address
    /\ SubSeq(data, n + m + 33, n + m + 64) = X.card.address
    /\ \A k \in 0..7 : data[n + m + 65 + k] = ByteOf(X.card.expires, k)
    /\ \A k \in 0..3 : data[n + m + 73 + k] = ByteOf(X.sequence, k)
    /\ data # BallotData_serialize(X)

\* a record whose expires and sequence take their widest wire forms
C9_Witness ==
    /\ X.card.expires = <<65535, 65535, 65535, 65535>>
    /\ X.sequence = <<65535, 65535, 0, 0>>
    /\ X.card.signature # ZeroSignature
    /\ Len(BallotData_computeHash(X).data) = 4 + 1 + 76
    /\ signed # <<>>

IsPrefix(p, whole) == Len(p) <= Len(whole) /\ p = SubSeq(whole, 1, Len(p))

\* proposal_id strings a record's bytes may be re-split into: NUL, the only
\* sampled ballot byte that is UTF-8 on its own, joins the alphabet
SplitStrings == UNION {[1..k -> Alphabet \cup {0}] : k \in 0..(MaxPidLen + MaxBallotLen)}

\* the records with the same proposal_id bytes followed by ballot bytes as
\* b, and b's other fields
Resplit(b) ==
    LET joined == Buffer_from(b.proposal_id) \o b.ballot IN
    {[b EXCEPT !.proposal_id = p,
               !.ballot = SubSeq(joined, Len(Buffer_from(p)) + 1, Len(joined))] :
        p \in {q \in SplitStrings : IsPrefix(Buffer_from(q), joined)}}

\* C10: two records with the same proposal_id bytes followed by ballot
\* bytes and the same other fields have the same hash input and the same
\* verify() result; when the boundary differs they serialize to different
\* bytes and deserialize to different proposal_id and ballot values
C10_BoundaryEquivalence ==
    \A y \in Resplit(X) :
        /\ BallotData_computeHash(y) = BallotData_computeHash(X)
        /\ BallotData_verify(y) = BallotData_verify(X)
        /\ Buffer_from(y.proposal_id) # Buffer_from(X.proposal_id) =>
              LET wx == BallotData_deserialize(BallotData_serialize(X))
                  wy == BallotData_deserialize(BallotData_serialize(y)) IN
              /\ BallotData_serialize(y) # BallotData_serialize(X)
              /\ wx.status = "ok" /\ wy.status = "ok"
              /\ wx.value[1].proposal_id # wy.value[1].proposal_id
              /\ wx.value[1].ballot # wy.value[1].ballot

\* a validly signed record and another split of its bytes that verifies too
C10_Witness ==
    /\ BallotData_verify(X) = "true"
    /\ \E y \in Resplit(X) :
          /\ Len(y.proposal_id) < Len(X.proposal_id)
          /\ BallotData_verify(y) = "true"
    /\ \E y \in Resplit(X) : Len(y.ballot) < Len(X.ballot)

(***************************************************************************)
(* Properties of the constructed objects (SpecSign, Spec)                  *)
(***************************************************************************)
\* C5: an object constructed without a signature argument holds the
\* all-zero signature and its verify() is false
C5_DefaultSignature ==
    \A o \in unsigned :
        IF o[1] = "card"
        THEN /\ cards[o[2]].signature = ZeroSignature
             /\ ~VoterCard_verify(cards[o[2]])
        ELSE /\ ballots[o[2]].signature = ZeroSignature
             /\ BallotData_verify(Deref(ballots[o[2]])) = "false"

\* a ballot constructed without a signature whose card has since been
\* validly signed by the validator
C5_Witness ==
    /\ <<"ballot", 1>> \in unsigned
    /\ VoterCard_verify(X.card)
    /\ X.signature = ZeroSignature
    /\ BallotData_verify(X) = "false"

\* C8 as claimed: once two BallotData were constructed from the same
\* VoterCard, a change to that VoterCard leaves each record's card fields,
\* serialized bytes and hash input as they were
C8_ExclusiveOwnership ==
    [][\A i, j \in 1..Len(ballots) :
          (i # j /\ ballots[i].card = ballots[j].card /\ ballots' = ballots)
              => /\ Deref(ballots[j])' = Deref(ballots[j])
                 /\ Wire(j)' = Wire(j)
                 /\ BallotData_computeHash(Deref(ballots[j]))'
                        = BallotData_computeHash(Deref(ballots[j]))]_vars

====
